---- MODULE Spec2Model ----
(***************************************************************************)
(* Model of ads1115.c: a Nagios check that reads one analog input of an    *)
(* ADS1115 converter over I2C, converts the sample to a pressure and       *)
(* classifies it against two thresholds.                                   *)
(*                                                                         *)
(* main() is one sequential process; pc is its position.  The I2C device   *)
(* and the kernel are the environment: the result of open, ioctl, write    *)
(* and read is drawn nondeterministically.                                 *)
(*                                                                         *)
(* Numbers.  The float quantities are modelled exactly as rationals with   *)
(* a fixed denominator; float rounding is not modelled.                    *)
(*   low, high, minpressure, maxpressure : whole bar                       *)
(*   slope, con, pressure                : units of 1/Den bar              *)
(*   VPS, voltage                        : units of 1/(1000*maxval) volt   *)
(* The options -d, -a and -A only change the device name and the address   *)
(* handed to open/ioctl, whose outcome is nondeterministic here anyway;    *)
(* they are not modelled.                                                  *)
(***************************************************************************)
EXTENDS Integers, Sequences, FiniteSets, TLC

\* ---------------------------------------------------------------- bounds
\* largest number of polling reads of one run that the model follows
MaxPolls == 3
\* option -i takes its value from 0..MaxInputArg
MaxInputArg == 5

\* ------------------------------------------------------ program constants
minval == 2090
maxval == 10630
EXIT_FAILURE == 1
EXIT_OK == 0
EXIT_CRITICAL == 2
\* exit status of a process that has not exited yet
Running == -1
\* the missing-threshold sentinel, -1.0
Unset == -1
\* denominator of slope, con and pressure: maxval - minval
Den == maxval - minval
\* 6.144 volt in millivolt
RefMilliVolt == 6144

\* ------------------------------------------------------------ input sets
InputArgs == 0..MaxInputArg
ThresholdArgs == {-1, 0, 2, 8}
CalArgs == {-5, 0, 1, 10}
\* 16-bit words the device may return for a polling read (config register):
\* 0x4185 busy, 0xC185 ready, 0x0080 busy with bit 7 of the second byte set
PollWords == {16773, 49541, 128}
\* 16-bit words the device may return for the conversion register
SampleWords == {0, 2090, 3798, 6360, 8922, 10630, 32767, 32768, 40000, 65535}

VARIABLES
    pc,          \* position in main
    verbose, input, minpressure, maxpressure, low, high,
    given,       \* history: threshold options seen on the command line
    VPS, slope, con,
    fd,          \* "none", "open", "closed"
    addressed,   \* ioctl(I2C_SLAVE) succeeded
    writeBuf, readBuf,
    val, voltage, pressure,
    nagiosexit,
    status,      \* exit status, Running until exit
    out,         \* lines printed, in order
    bus,         \* write/read calls issued on the descriptor, in order
    failed       \* history: the step that failed, "" if none

vars == <<pc, verbose, input, minpressure, maxpressure, low, high, given,
          VPS, slope, con, fd, addressed, writeBuf, readBuf, val, voltage,
          pressure, nagiosexit, status, out, bus, failed>>

argVars == <<verbose, input, minpressure, maxpressure, low, high, given>>
coefVars == <<VPS, slope, con>>
resVars == <<val, voltage, pressure, nagiosexit>>

\* ------------------------------------------------------------ bit helpers
RECURSIVE BitAnd(_, _)
BitAnd(a, b) ==
    IF a = 0 \/ b = 0 THEN 0
    ELSE (a % 2) * (b % 2) + 2 * BitAnd(a \div 2, b \div 2)

RECURSIVE BitOr(_, _)
BitOr(a, b) ==
    IF a = 0 THEN b
    ELSE IF b = 0 THEN a
    ELSE (IF a % 2 = 1 \/ b % 2 = 1 THEN 1 ELSE 0) + 2 * BitOr(a \div 2, b \div 2)

HiByte(w) == w \div 256
LoByte(w) == w % 256

Line(tag, args) == [tag |-> tag, args |-> args]
BusOp(op, len, ret, data) == [op |-> op, len |-> len, ret |-> ret, data |-> data]

\* the first n bytes of a buffer
Take(buf, n) == [i \in 1..n |-> buf[i]]
\* a read that returned ret bytes overwrites the first ret bytes of buf
ReadInto(buf, data, ret) ==
    [i \in 1..Len(buf) |-> IF i <= ret THEN data[i] ELSE buf[i]]
\* the bytes a read returned
Returned(data, ret) == IF ret <= 0 THEN <<>> ELSE Take(data, ret)

\* ------------------------------------------------------------------ Init
\* lines 51-58: the defaults
Init ==
    /\ pc = "getopt"
    /\ verbose = 0
    /\ nagiosexit = 0
    /\ minpressure = Unset
    /\ maxpressure = Unset
    /\ low = 0
    /\ high = 10
    /\ input = 1
    /\ given = {}
    /\ VPS = 0 /\ slope = 0 /\ con = 0
    /\ fd = "none"
    /\ addressed = FALSE
    /\ writeBuf = <<0, 0, 0>>
    /\ readBuf = <<0, 0>>
    /\ val = 0 /\ voltage = 0 /\ pressure = 0
    /\ status = Running
    /\ out = <<>>
    /\ bus = <<>>
    /\ failed = ""

\* variant: failures exit with the CRITICAL status
ExitWith_m(line, code, step) ==
    /\ out' = Append(out, line)
    /\ status' = EXIT_CRITICAL
    /\ failed' = step
    /\ pc' = "exited"

\* exit(code) after printing one line
ExitWith(line, code, step) ==
    /\ out' = Append(out, line)
    /\ status' = code
    /\ failed' = step
    /\ pc' = "exited"

\* ------------------------------------------------------- option parsing
OptV ==
    /\ pc = "getopt"
    /\ verbose' = 1
    /\ UNCHANGED <<pc, input, minpressure, maxpressure, low, high, given,
                   coefVars, fd, addressed, writeBuf, readBuf, resVars,
                   status, out, bus, failed>>

OptI ==
    /\ pc = "getopt"
    /\ \E n \in InputArgs : input' = n
    /\ UNCHANGED <<pc, verbose, minpressure, maxpressure, low, high, given,
                   coefVars, fd, addressed, writeBuf, readBuf, resVars,
                   status, out, bus, failed>>

OptMin ==
    /\ pc = "getopt"
    /\ \E x \in ThresholdArgs : minpressure' = x
    /\ given' = given \cup {"m"}
    /\ UNCHANGED <<pc, verbose, input, maxpressure, low, high,
                   coefVars, fd, addressed, writeBuf, readBuf, resVars,
                   status, out, bus, failed>>

OptMax ==
    /\ pc = "getopt"
    /\ \E x \in ThresholdArgs : maxpressure' = x
    /\ given' = given \cup {"M"}
    /\ UNCHANGED <<pc, verbose, input, minpressure, low, high,
                   coefVars, fd, addressed, writeBuf, readBuf, resVars,
                   status, out, bus, failed>>

OptL ==
    /\ pc = "getopt"
    /\ \E x \in CalArgs : low' = x
    /\ UNCHANGED <<pc, verbose, input, minpressure, maxpressure, high, given,
                   coefVars, fd, addressed, writeBuf, readBuf, resVars,
                   status, out, bus, failed>>

OptH ==
    /\ pc = "getopt"
    /\ \E x \in CalArgs : high' = x
    /\ UNCHANGED <<pc, verbose, input, minpressure, maxpressure, low, given,
                   coefVars, fd, addressed, writeBuf, readBuf, resVars,
                   status, out, bus, failed>>

\* an option getopt does not know: usage and exit
OptUsage ==
    /\ pc = "getopt"
    /\ ExitWith(Line("usage", <<>>), EXIT_FAILURE, "usage")
    /\ UNCHANGED <<argVars, coefVars, fd, addressed, writeBuf, readBuf,
                   resVars, bus>>

\* getopt returns -1
GetoptEnd ==
    /\ pc = "getopt"
    /\ pc' = "check_input"
    /\ UNCHANGED <<argVars, coefVars, fd, addressed, writeBuf, readBuf,
                   resVars, status, out, bus, failed>>

\* --------------------------------------------------- argument validation
\* variant: upper limit off by one
InputInvalid_m(i) == i < 1 \/ i > 5

InputInvalid(i) == i < 1 \/ i > 4

CheckInput ==
    /\ pc = "check_input"
    /\ IF InputInvalid(input)
       THEN ExitWith(Line("err_input", <<>>), EXIT_FAILURE, "input")
       ELSE /\ pc' = "check_thresholds"
            /\ UNCHANGED <<status, out, failed>>
    /\ UNCHANGED <<argVars, coefVars, fd, addressed, writeBuf, readBuf,
                   resVars, bus>>

\* variant: presence of the options is tracked instead of a sentinel value
ThresholdMissing_g(mn, mx) == given # {"m", "M"}

\* variant: both thresholds must be missing
ThresholdMissing_m(mn, mx) == mn = Unset /\ mx = Unset

ThresholdMissing(mn, mx) == mn = Unset \/ mx = Unset

CheckThresholds ==
    /\ pc = "check_thresholds"
    /\ IF ThresholdMissing(minpressure, maxpressure)
       THEN ExitWith(Line("err_thresholds", <<>>), EXIT_FAILURE, "thresholds")
       ELSE /\ pc' = "derive"
            /\ UNCHANGED <<status, out, failed>>
    /\ UNCHANGED <<argVars, coefVars, fd, addressed, writeBuf, readBuf,
                   resVars, bus>>

\* ------------------------------------------------------- coefficients
\* variant: the calibration points are swapped
SlopeOf_m(lo, hi) == lo - hi

\* slope = (high - low)/(maxval - minval), in 1/Den bar per step
SlopeOf(lo, hi) == hi - lo
\* variant: the constant is taken at the upper calibration point
ConOf_m(s) == s * maxval

\* con = slope * minval
ConOf(s) == s * minval

Derive ==
    /\ pc = "derive"
    /\ VPS' = RefMilliVolt
    /\ slope' = SlopeOf(low, high)
    /\ con' = ConOf(SlopeOf(low, high))
    /\ out' = IF verbose = 1
              THEN out \o <<Line("debug_device", <<input>>),
                            Line("debug_coef", <<maxval, minval, SlopeOf(low, high),
                                                 ConOf(SlopeOf(low, high))>>)>>
              ELSE out
    /\ pc' = "open"
    /\ UNCHANGED <<argVars, fd, addressed, writeBuf, readBuf, resVars,
                   status, bus, failed>>

\* ------------------------------------------------------- open and address
Open ==
    /\ pc = "open"
    /\ \E ok \in BOOLEAN :
         IF ok
         THEN /\ fd' = "open"
              /\ pc' = "ioctl"
              /\ UNCHANGED <<status, out, failed>>
         ELSE /\ ExitWith(Line("err_open", <<>>), EXIT_FAILURE, "open")
              /\ UNCHANGED fd
    /\ UNCHANGED <<argVars, coefVars, addressed, writeBuf, readBuf, resVars, bus>>

Ioctl ==
    /\ pc = "ioctl"
    /\ \E ok \in BOOLEAN :
         IF ok
         THEN /\ addressed' = TRUE
              /\ pc' = "build_config"
              /\ UNCHANGED <<status, out, failed>>
         ELSE /\ ExitWith(Line("err_ioctl", <<>>), EXIT_FAILURE, "ioctl")
              /\ UNCHANGED addressed
    /\ UNCHANGED <<argVars, coefVars, fd, writeBuf, readBuf, resVars, bus>>

\* ------------------------------------------------------- configuration
\* variant: input 4 selects the multiplexer code of input 3
ConfigHigh_m(i) ==
    IF i = 1 THEN 193
    ELSE IF i = 2 THEN 209
    ELSE 225

\* lines 136-144: bits 15-8 of the config register for an input
ConfigHigh(i) ==
    IF i = 1 THEN 193        \* 0b11000001
    ELSE IF i = 2 THEN 209   \* 0b11010001
    ELSE IF i = 3 THEN 225   \* 0b11100001
    ELSE 241                 \* 0b11110001

\* line 154: bits 7-0 of the config register, 0b10000101
ConfigLow == 133
\* register pointers
ConfigRegister == 1
ConversionRegister == 0

BuildConfig ==
    /\ pc = "build_config"
    /\ writeBuf' = <<ConfigRegister, ConfigHigh(input), ConfigLow>>
    /\ pc' = "config_write"
    /\ UNCHANGED <<argVars, coefVars, fd, addressed, readBuf, resVars,
                   status, out, bus, failed>>

\* variant: any transfer of at least one byte counts as success
Transferred_m(ret, n) == ret >= 1

\* a write or read of n bytes succeeded iff it returned n
Transferred(ret, n) == ret = n

\* line 159: write(fd, writeBuf, 3)
ConfigWrite ==
    /\ pc = "config_write"
    /\ \E ret \in -1..3 :
         /\ bus' = Append(bus, BusOp("write", 3, ret, Take(writeBuf, 3)))
         /\ IF Transferred(ret, 3)
            THEN /\ pc' = "poll"
                 /\ UNCHANGED <<status, out, failed>>
            ELSE ExitWith(Line("perror_write_register_1", <<>>), EXIT_FAILURE,
                          "config_write")
    /\ UNCHANGED <<argVars, coefVars, fd, addressed, writeBuf, readBuf, resVars>>

\* variant: the test is inverted
Ready_inv(b) == BitAnd(b, 128) = 0

\* variant: tests bit 6
Ready_m(b) == BitAnd(b, 64) # 0

\* line 170: the loop continues while (writeBuf[0] & 0x80) == 0
Ready(b) == BitAnd(b, 128) # 0

\* the polling reads issued so far
Polls == Cardinality({i \in 1..Len(bus) : bus[i].op = "read"})

\* variant: the loop gives up after two busy polling reads
PollRead_lim ==
    /\ pc = "poll"
    /\ Polls < MaxPolls
    /\ \E ret \in -1..2, w \in PollWords :
         LET data == <<HiByte(w), LoByte(w)>>
             buf == ReadInto(writeBuf, data, ret)
         IN /\ bus' = Append(bus, BusOp("read", 2, ret, Returned(data, ret)))
            /\ writeBuf' = buf
            /\ IF Transferred(ret, 2) /\ (Ready(buf[1]) \/ Polls + 1 < 2)
               THEN /\ pc' = IF Ready(buf[1]) THEN "select" ELSE "poll"
                    /\ UNCHANGED <<status, out, failed>>
               ELSE ExitWith(Line("perror_read_conversion", <<>>), EXIT_FAILURE,
                             "poll_read")
    /\ UNCHANGED <<argVars, coefVars, fd, addressed, readBuf, resVars>>

\* lines 165-170: one iteration of the do-while loop
PollRead ==
    /\ pc = "poll"
    /\ Polls < MaxPolls
    /\ \E ret \in -1..2, w \in PollWords :
         LET data == <<HiByte(w), LoByte(w)>>
             buf == ReadInto(writeBuf, data, ret)
         IN /\ bus' = Append(bus, BusOp("read", 2, ret, Returned(data, ret)))
            /\ writeBuf' = buf
            /\ IF Transferred(ret, 2)
               THEN /\ pc' = IF Ready(buf[1]) THEN "select" ELSE "poll"
                    /\ UNCHANGED <<status, out, failed>>
               ELSE ExitWith(Line("perror_read_conversion", <<>>), EXIT_FAILURE,
                             "poll_read")
    /\ UNCHANGED <<argVars, coefVars, fd, addressed, readBuf, resVars>>

\* lines 174-178: select the conversion register
SelectWrite ==
    /\ pc = "select"
    /\ LET buf == <<ConversionRegister, readBuf[2]>>
       IN /\ readBuf' = buf
          /\ \E ret \in -1..1 :
               /\ bus' = Append(bus, BusOp("write", 1, ret, Take(buf, 1)))
               /\ IF Transferred(ret, 1)
                  THEN /\ pc' = "sample_read"
                       /\ UNCHANGED <<status, out, failed>>
                  ELSE ExitWith(Line("perror_write_register_select", <<>>),
                                EXIT_FAILURE, "select_write")
    /\ UNCHANGED <<argVars, coefVars, fd, addressed, writeBuf, resVars>>

\* lines 180-183: read the two sample bytes
SampleRead ==
    /\ pc = "sample_read"
    /\ \E ret \in -1..2, w \in SampleWords :
         LET data == <<HiByte(w), LoByte(w)>>
         IN /\ bus' = Append(bus, BusOp("read", 2, ret, Returned(data, ret)))
            /\ readBuf' = ReadInto(readBuf, data, ret)
            /\ IF Transferred(ret, 2)
               THEN /\ pc' = "convert"
                    /\ UNCHANGED <<status, out, failed>>
               ELSE ExitWith(Line("perror_read_conversion", <<>>), EXIT_FAILURE,
                             "sample_read")
    /\ UNCHANGED <<argVars, coefVars, fd, addressed, writeBuf, resVars>>

\* ------------------------------------------------------------ conversion
\* variant: the value is kept in an int, no wrap to 16 bits
ToInt16_m(w) == w % 65536

\* conversion of an int in 0..65535 to int16_t
ToInt16(w) == IF w % 65536 >= 32768 THEN (w % 65536) - 65536 ELSE w % 65536

\* line 185: readBuf[0] << 8 | readBuf[1], stored in an int16_t
Compose(b0, b1) == ToInt16(BitOr(b0 * 256, b1))

\* variant: negative samples are kept
Clamp_m(v) == IF v > 32768 THEN 0 ELSE v

\* lines 187-188
Clamp(v) == IF v < 0 \/ v > 32768 THEN 0 ELSE v

\* variant: no floor
Floor_m(p) == p

\* lines 192-193
Floor(p) == IF p < 0 THEN 0 ELSE p

\* line 191 and 192-193: pressure = (slope * val) - con, floored
ToPressure(s, k, v) == Floor((s * v) - k)

\* variant: the second sample byte is taken from the polling buffer
Convert_m ==
    /\ pc = "convert"
    /\ LET v == Clamp(Compose(readBuf[1], writeBuf[2]))
           u == v * VPS
           p == ToPressure(slope, con, v)
       IN /\ val' = v
          /\ voltage' = u
          /\ pressure' = p
          /\ out' = IF verbose = 1
                    THEN Append(out, Line("ANC", <<input - 1, v, u, p>>))
                    ELSE out
    /\ pc' = "classify"
    /\ UNCHANGED <<argVars, coefVars, fd, addressed, writeBuf, readBuf,
                   nagiosexit, status, bus, failed>>

Convert ==
    /\ pc = "convert"
    /\ LET v == Clamp(Compose(readBuf[1], readBuf[2]))
           u == v * VPS
           p == ToPressure(slope, con, v)
       IN /\ val' = v
          /\ voltage' = u
          /\ pressure' = p
          /\ out' = IF verbose = 1
                    THEN Append(out, Line("ANC", <<input - 1, v, u, p>>))
                    ELSE out
    /\ pc' = "classify"
    /\ UNCHANGED <<argVars, coefVars, fd, addressed, writeBuf, readBuf,
                   nagiosexit, status, bus, failed>>

\* ------------------------------------------------------------- verdict
\* variant: a reading equal to a threshold is critical
Verdict_m(p, mn, mx) ==
    IF p <= mn * Den THEN "CRITICAL_below"
    ELSE IF p >= mx * Den THEN "CRITICAL_over"
    ELSE "OK"

\* lines 199-211; p is in 1/Den bar, the thresholds in bar
Verdict(p, mn, mx) ==
    IF p < mn * Den THEN "CRITICAL_below"
    ELSE IF p > mx * Den THEN "CRITICAL_over"
    ELSE "OK"

Classify ==
    /\ pc = "classify"
    /\ LET v == Verdict(pressure, minpressure, maxpressure)
       IN /\ out' = Append(out,
                      Line(v, IF v = "CRITICAL_below" THEN <<pressure, minpressure>>
                              ELSE IF v = "CRITICAL_over" THEN <<pressure, maxpressure>>
                              ELSE <<pressure>>))
          /\ nagiosexit' = IF v = "OK" THEN EXIT_OK ELSE EXIT_CRITICAL
    /\ pc' = "close"
    /\ UNCHANGED <<argVars, coefVars, fd, addressed, writeBuf, readBuf,
                   val, voltage, pressure, status, bus, failed>>

\* line 213
Close ==
    /\ pc = "close"
    /\ fd' = "closed"
    /\ pc' = "exit"
    /\ UNCHANGED <<argVars, coefVars, addressed, writeBuf, readBuf, resVars,
                   status, out, bus, failed>>

\* line 214
Exit ==
    /\ pc = "exit"
    /\ status' = nagiosexit
    /\ pc' = "exited"
    /\ UNCHANGED <<argVars, coefVars, fd, addressed, writeBuf, readBuf, resVars,
                   out, bus, failed>>

Next ==
    \/ OptV \/ OptI \/ OptMin \/ OptMax \/ OptL \/ OptH \/ OptUsage \/ GetoptEnd
    \/ CheckInput \/ CheckThresholds \/ Derive
    \/ Open \/ Ioctl
    \/ BuildConfig \/ ConfigWrite \/ PollRead \/ SelectWrite \/ SampleRead
    \/ Convert \/ Classify \/ Close \/ Exit

Spec == Init /\ [][Next]_vars

\* The runs in which the calibration options -l and -h are not given (low and
\* high keep their defaults); used for the liveness properties, which do not
\* depend on the calibration.
LiveNext ==
    \/ OptV \/ OptI \/ OptMin \/ OptMax \/ OptUsage \/ GetoptEnd
    \/ CheckInput \/ CheckThresholds \/ Derive
    \/ Open \/ Ioctl
    \/ BuildConfig \/ ConfigWrite \/ PollRead \/ SelectWrite \/ SampleRead
    \/ Convert \/ Classify \/ Close \/ Exit

\* main is a single process of blocking calls that all return: whenever a
\* step is possible, one is taken; argv is finite, so the getopt loop ends
LiveSpec ==
    /\ Init /\ [][LiveNext]_vars
    /\ WF_vars(LiveNext)
    /\ WF_vars(GetoptEnd \/ OptUsage)

\* =================================================================
\* Properties
\* =================================================================
VerdictTags == {"OK", "CRITICAL_below", "CRITICAL_over"}
NoVerdict == \A i \in 1..Len(out) : out[i].tag \notin VerdictTags
NoSample == \A i \in 1..Len(out) : out[i].tag # "ANC"
NoBus == fd = "none" /\ ~addressed /\ bus = <<>>
\* the run went through the whole acquisition
Completed == pc \in {"classify", "close", "exit"} \/ (pc = "exited" /\ failed = "")

\* C1: the configure-and-start step writes, in one write and as the first
\* bus operation, the three bytes [1, H(input), 0b10000101] with H(1) =
\* 0b11000001, H(2) = 0b11010001, H(3) = 0b11100001, H(4) = 0b11110001; in the
\* 16-bit config word bit 15 is 1, bits 14-12 are input + 3, bit 8 is 1 and
\* the remaining bits are the same for all inputs.
C1_ConfigBytes ==
    Len(bus) >= 1 =>
        LET d == bus[1].data
            word == d[2] * 256 + d[3]
            mux == (word \div 4096) % 8
        IN /\ input \in 1..4
           /\ bus[1].op = "write" /\ bus[1].len = 3
           /\ d[1] = 1
           /\ d[3] = 133
           /\ input = 1 => d[2] = 193
           /\ input = 2 => d[2] = 209
           /\ input = 3 => d[2] = 225
           /\ input = 4 => d[2] = 241
           /\ (word \div 32768) % 2 = 1
           /\ mux = input + 3
           /\ (word \div 256) % 2 = 1
           /\ word - mux * 4096 = 33157
           /\ \A i \in 2..Len(bus) : ~(bus[i].op = "write" /\ bus[i].len = 3)

C1_Witness == pc = "poll" /\ input = 4 /\ Len(bus) = 1 /\ bus[1].ret = 3

\* C2: a run whose input is outside 1..4 ends as an argument error and never
\* opens or addresses the bus device and never writes to or reads from it.
C2_BadChannelNoBus ==
    (input < 1 \/ input > 4) =>
        /\ NoBus
        /\ NoVerdict
        /\ pc \in {"getopt", "check_input", "exited"}
        /\ pc = "exited" =>
              /\ status = EXIT_FAILURE
              /\ failed \in {"usage", "input"}
              /\ out[Len(out)].tag \in {"usage", "err_input"}

C2_Witness == pc = "exited" /\ input = 5 /\ failed = "input" /\ given = {"m", "M"}

\* C3: a run in which -m or -M was not given ends as an argument error right
\* after the argument checks: nothing is opened, written or read and no
\* verdict is printed.
C3_MissingThresholdNoRun ==
    given # {"m", "M"} =>
        /\ NoBus
        /\ NoVerdict
        /\ NoSample
        /\ pc \in {"getopt", "check_input", "check_thresholds", "exited"}
        /\ pc = "exited" =>
              /\ status = EXIT_FAILURE
              /\ failed \in {"usage", "input", "thresholds"}

C3_Witness ==
    /\ pc = "exited" /\ failed = "thresholds" /\ given = {"m"}
    /\ input \in 1..4 /\ minpressure = 2

\* C4: the bus operations of a run are a prefix of: one 3-byte config write,
\* one or more 2-byte polling reads, one 1-byte write of register address 0,
\* one 2-byte sample read; a run that reaches the verdict has issued all of
\* them.  The register select follows a polling read whose first byte has
\* bit 7 set, and the config word is written once.
Selects == {i \in 1..Len(bus) : bus[i].op = "write" /\ bus[i].len = 1}

C4_BusOrder ==
    /\ Len(bus) >= 1 => bus[1].op = "write" /\ bus[1].len = 3
    /\ \A i \in 2..Len(bus) :
          /\ ~(bus[i].op = "write" /\ bus[i].len = 3)
          /\ bus[i].op = "read" => bus[i].len = 2
    /\ Cardinality(Selects) <= 1
    /\ \A s \in Selects :
          /\ s >= 3
          /\ bus[s].data = <<0>>
          /\ \A j \in 2..(s - 1) : bus[j].op = "read"
          /\ bus[s - 1].ret = 2
          /\ bus[s - 1].data[1] >= 128
          /\ Len(bus) <= s + 1
          /\ Len(bus) = s + 1 => bus[s + 1].op = "read"
    /\ Selects = {} => \A i \in 2..Len(bus) : bus[i].op = "read"
    /\ (Completed \/ pc = "convert") =>
          /\ Selects # {}
          /\ \A s \in Selects : Len(bus) = s + 1
          /\ \A i \in 1..Len(bus) : bus[i].ret = bus[i].len

C4_Witness ==
    /\ pc = "exited" /\ failed = "" /\ Len(bus) = 5
    /\ bus[2].data[1] < 128 /\ bus[3].data[1] >= 128

\* C5: a failure at any stage is fatal: nothing is written or read after the
\* failing step, and the run ends with the failure status without a verdict
\* line and without a sample line.
LastShort == Len(bus) >= 1 /\ bus[Len(bus)].ret # bus[Len(bus)].len

C5_FailureFatal ==
    /\ \A i \in 1..(Len(bus) - 1) : bus[i].ret = bus[i].len
    /\ (LastShort \/ failed # "") =>
          /\ pc = "exited"
          /\ status = EXIT_FAILURE
          /\ NoVerdict
          /\ NoSample
    /\ failed \in {"open", "ioctl"} => bus = <<>>
    /\ failed = "open" => fd = "none"
    /\ failed = "ioctl" => ~addressed
    /\ failed = "config_write" => Len(bus) = 1
    /\ LastShort <=> failed \in {"config_write", "poll_read", "select_write", "sample_read"}

C5_Witness ==
    /\ failed = "poll_read" /\ Len(bus) = 3 /\ bus[3].ret = 1
    /\ bus[2].ret = 2

\* C6: in every terminated run that opened the bus device the descriptor has
\* been closed before the exit.
C6_ReleasedOnExit == (pc = "exited" /\ fd # "none") => fd = "closed"

\* C7: the raw sample used after the sample read is the big-endian 16-bit
\* value of the two bytes read as a two's-complement number when that lies in
\* 0..32768 and 0 otherwise; voltage and pressure are computed from it.
C7_ClampedSample ==
    Completed =>
        LET w == readBuf[1] * 256 + readBuf[2]
            v == IF w >= 32768 THEN w - 65536 ELSE w
            raw == IF v >= 0 /\ v <= 32768 THEN v ELSE 0
        IN /\ bus[Len(bus)].data = readBuf
           /\ val = raw
           /\ val \in 0..32768
           /\ voltage = val * 6144
           /\ pressure \in {0, (high - low) * (val - 2090)}

C7_Witness == pc = "classify" /\ readBuf = <<156, 64>> /\ val = 0

\* C8: the verdict is CRITICAL (exit status 2) exactly when the reading is
\* strictly below min or strictly above max and OK (exit status 0) otherwise;
\* a reading equal to a bound is OK; no other verdict is produced.
IsCritical == pressure < minpressure * 8540 \/ pressure > maxpressure * 8540

C8_Verdict ==
    /\ \A i \in 1..Len(out) : out[i].tag # "WARNING"
    /\ pc \in {"close", "exit"} \/ (pc = "exited" /\ failed = "") =>
          /\ out[Len(out)].tag \in VerdictTags
          /\ out[Len(out)].args[1] = pressure
          /\ out[Len(out)].tag \in {"CRITICAL_below", "CRITICAL_over"} <=> IsCritical
          /\ nagiosexit = 2 <=> IsCritical
          /\ nagiosexit = 0 <=> ~IsCritical
          /\ pc = "exited" => status = nagiosexit
          /\ Cardinality({i \in 1..Len(out) : out[i].tag \in VerdictTags}) = 1
    /\ (pc = "exited" /\ status \in {0, 2}) => failed = ""

C8_Witness ==
    /\ pc = "exited" /\ status = 0
    /\ pressure = minpressure * 8540 /\ pressure > 0
    /\ maxpressure > minpressure

\* C9: the pressure that is printed and compared with the thresholds is never
\* negative, whatever the sample and the calibration values.
C9_NeverNegative ==
    /\ pressure >= 0
    /\ \A i \in 1..Len(out) :
          /\ out[i].tag \in VerdictTags => out[i].args[1] >= 0
          /\ out[i].tag = "ANC" => out[i].args[4] >= 0

C9_Witness ==
    /\ pc = "close" /\ high < low /\ val > 2090 /\ pressure = 0
    /\ (high - low) * (val - 2090) < 0

\* C10: with the coefficients derived from (low, high) a raw sample of 2090
\* gives the pressure low and a raw sample of 10630 gives the pressure high.
C10_RoundTrip ==
    Completed =>
        /\ val = 2090 => pressure = low * 8540
        /\ val = 10630 => pressure = high * 8540

\* the verdict line has been printed
Judged == pc \in {"close", "exit"} \/ (pc = "exited" /\ failed = "")
LastTag == out[Len(out)].tag
SampleWord == readBuf[1] * 256 + readBuf[2]

\* C11: with low = 0, high = 10, min = 2, max = 8 and no bus error, sample
\* 2090 gives pressure 0.0 and CRITICAL, 6360 gives 5.0 and OK, 10630 gives
\* 10.0 and CRITICAL, 40000 is clamped to 0 and gives 0.0 and CRITICAL; in
\* general the verdict is OK exactly when 2 <= 10*(r - 2090)/8540 <= 8 for
\* the clamped sample r.
C11_Scenarios ==
    (Judged /\ low = 0 /\ high = 10 /\ minpressure = 2 /\ maxpressure = 8) =>
        /\ SampleWord = 2090 =>
              val = 2090 /\ pressure = 0 /\ LastTag = "CRITICAL_below" /\ nagiosexit = 2
        /\ SampleWord = 6360 =>
              val = 6360 /\ pressure = 5 * 8540 /\ LastTag = "OK" /\ nagiosexit = 0
        /\ SampleWord = 10630 =>
              val = 10630 /\ pressure = 10 * 8540 /\ LastTag = "CRITICAL_over" /\ nagiosexit = 2
        /\ SampleWord = 40000 =>
              val = 0 /\ pressure = 0 /\ LastTag = "CRITICAL_below" /\ nagiosexit = 2
        /\ LastTag = "OK" <=>
              (2 * 8540 <= 10 * (val - 2090) /\ 10 * (val - 2090) <= 8 * 8540)
        /\ out[Len(out)].args[1] = pressure

C11_Witness ==
    /\ pc = "exited" /\ status = 0 /\ readBuf = <<24, 216>>
    /\ low = 0 /\ high = 10 /\ minpressure = 2 /\ maxpressure = 8

\* indices of the polling reads in the bus log
PollIdx == {i \in 2..Len(bus) : bus[i].op = "read" /\ \A s \in Selects : i < s}
IsReadyRead(e) == e.ret = 2 /\ e.data[1] >= 128
\* the model stops following a run that is still polling after MaxPolls reads
PollingAtBound == pc = "poll" /\ Polls = MaxPolls

\* C12: once a polling read returns two bytes with bit 7 of the first set,
\* the run leaves the poll loop and, unless the register select or the sample
\* read is short, reads the sample and exits with the OK or CRITICAL status;
\* every run exits unless the device stays busy; the loop ends at the first
\* ready polling read and not before.
C12_Terminates ==
    /\ [](pc = "select" =>
            <>(/\ pc = "exited"
               /\ \/ failed \in {"select_write", "sample_read"}
                  \/ /\ failed = ""
                     /\ status \in {0, 2}
                     /\ LastTag \in VerdictTags
                     /\ bus[Len(bus)].op = "read" /\ bus[Len(bus)].ret = 2))
    /\ <>(pc = "exited" \/ PollingAtBound)
    /\ [](\A i \in PollIdx :
            IsReadyRead(bus[i]) <=>
               (/\ \A j \in PollIdx : j <= i
                /\ pc # "poll"
                /\ failed # "poll_read"))
    /\ []((pc = "select" \/ Selects # {}) => \E i \in PollIdx : IsReadyRead(bus[i]))

C12_Witness ==
    /\ pc = "exited" /\ failed = "" /\ status = 2 /\ Len(bus) = 6
    /\ ~IsReadyRead(bus[2]) /\ ~IsReadyRead(bus[3]) /\ IsReadyRead(bus[4])

\* the config write succeeded and every read since returned two bytes with
\* bit 7 of the first clear
AllBusy ==
    /\ Len(bus) >= 2
    /\ bus[1].ret = 3
    /\ \A i \in 2..Len(bus) :
          bus[i].op = "read" /\ bus[i].ret = 2 /\ bus[i].data[1] < 128

\* C13: the poll loop has no attempt limit: after any number of successful
\* polling reads with bit 7 clear the run is still polling, has not failed
\* and can poll again; the loop is left only by a ready polling read (to the
\* register select) or by a polling read that did not return two bytes (to
\* the failure exit).
C13_NoAttemptLimit ==
    /\ [](AllBusy =>
            /\ pc = "poll"
            /\ failed = ""
            /\ status = -1
            /\ Polls = Len(bus) - 1
            /\ Polls < MaxPolls => ENABLED PollRead)
    /\ [](failed = "poll_read" =>
            /\ Selects = {}
            /\ Len(bus) >= 2
            /\ bus[Len(bus)].op = "read"
            /\ bus[Len(bus)].ret # 2)
    /\ [][(pc = "poll" /\ pc' # "poll") =>
            \/ pc' = "select" /\ IsReadyRead(bus'[Len(bus')])
            \/ pc' = "exited" /\ failed' = "poll_read" /\ bus'[Len(bus')].ret # 2]_vars

C13_Witness == pc = "poll" /\ AllBusy /\ Polls = 3

\* raw samples at which the transfer function is compared
RawGrid == {0, 1, 2089, 2090, 2091, 6360, 10629, 10630, 10631, 32767, 32768}

\* C14: with high > low the pressure is monotonically non-decreasing in the
\* raw sample: for raw samples r1 <= r2 in 0..32768 the pressure of r1 is at
\* most the pressure of r2, the pressure of the run's own sample included.
C14_Monotone ==
    (Completed /\ high > low) =>
        /\ \A r \in RawGrid :
              /\ r <= val => ToPressure(slope, con, r) <= pressure
              /\ r >= val => pressure <= ToPressure(slope, con, r)
        /\ \A r1, r2 \in RawGrid :
              r1 <= r2 => ToPressure(slope, con, r1) <= ToPressure(slope, con, r2)

C14_Witness ==
    /\ pc = "close" /\ low = -5 /\ high = 1 /\ val = 6360
    /\ pressure > 0 /\ pressure < ToPressure(slope, con, 10630)

\* C15: for every sample whose 16-bit value is negative or above 32768 the
\* reported pressure is the pressure of raw = 0, max(0, slope*0 - con), for
\* all low and high; it is 0.0 whenever high >= low.
C15_ClampPressure ==
    (Completed /\ SampleWord >= 32768) =>
        LET atZero == IF (low - high) * 2090 > 0 THEN (low - high) * 2090 ELSE 0
        IN /\ val = 0
           /\ pressure = atZero
           /\ high >= low => pressure = 0
           /\ Judged => out[Len(out)].args[1] = atZero
           /\ \A i \in 1..Len(out) : out[i].tag = "ANC" => out[i].args[4] = atZero

C15_Witness ==
    /\ pc = "exited" /\ failed = "" /\ readBuf = <<255, 255>>
    /\ high < low /\ pressure > 0 /\ verbose = 1

ErrorTags == {"usage", "err_input", "err_thresholds", "err_open", "err_ioctl",
              "perror_write_register_1", "perror_read_conversion",
              "perror_write_register_select"}
HasErrorLine == \E i \in 1..Len(out) : out[i].tag \in ErrorTags

\* C16: every failing run (bad input, missing threshold, open or addressing
\* failure, short write or read) exits with a status that is neither 0 (OK)
\* nor 2 (CRITICAL); the statuses 0 and 2 come only from runs that completed
\* the sample read.
C16_FailureStatus ==
    /\ pc # "exited" => status = -1
    /\ pc = "exited" =>
          /\ status \in {0, 1, 2}
          /\ (\/ HasErrorLine \/ failed # "" \/ LastShort
              \/ input < 1 \/ input > 4
              \/ minpressure = -1 \/ maxpressure = -1
              \/ fd = "none" \/ ~addressed) => status \notin {0, 2}
          /\ status \in {0, 2} =>
                /\ ~HasErrorLine
                /\ Selects # {}
                /\ \A s \in Selects : Len(bus) = s + 1
                /\ bus[Len(bus)].op = "read" /\ bus[Len(bus)].ret = 2

C16_Witness ==
    /\ pc = "exited" /\ failed = "sample_read" /\ status = 1
    /\ bus[Len(bus)].ret = 1

\* C17: a threshold is taken as missing when it equals the sentinel -1.0, so a
\* run that passes -m -1 or -M -1 explicitly is rejected as an argument error
\* exactly like a run that omitted the option, and acquires nothing.
C17_SentinelRejected ==
    (minpressure = -1 \/ maxpressure = -1) =>
        /\ NoBus
        /\ NoVerdict
        /\ NoSample
        /\ pc \in {"getopt", "check_input", "check_thresholds", "exited"}
        /\ (pc = "exited" /\ input \in 1..4 /\ failed # "usage") =>
              /\ failed = "thresholds"
              /\ status = 1
              /\ out = <<[tag |-> "err_thresholds", args |-> <<>>]>>

C17_Witness ==
    /\ pc = "exited" /\ failed = "thresholds" /\ given = {"m", "M"}
    /\ minpressure = -1 /\ maxpressure = 8 /\ input \in 1..4

\* C18: the pressure and the verdict of a completed run are a function of the
\* two bytes of the sample read and of low, high, min and max alone: two
\* completed runs that agree on these agree on pressure and verdict, whatever
\* the input, the number of polling reads and the bytes they returned.
C18_Determined ==
    Judged =>
        LET w == bus[Len(bus)].data[1] * 256 + bus[Len(bus)].data[2]
            raw == IF w >= 32768 THEN 0 ELSE w
            p0 == (high - low) * (raw - 2090)
            p == IF p0 < 0 THEN 0 ELSE p0
            v == IF p < minpressure * 8540 THEN "CRITICAL_below"
                 ELSE IF p > maxpressure * 8540 THEN "CRITICAL_over"
                 ELSE "OK"
        IN /\ pressure = p
           /\ LastTag = v
           /\ out[Len(out)].args[1] = p
           /\ nagiosexit = (IF v = "OK" THEN 0 ELSE 2)
           /\ pc = "exited" => status = (IF v = "OK" THEN 0 ELSE 2)
           /\ \A i \in 1..Len(out) : out[i].tag = "ANC" => out[i].args[4] = p

C18_Witness ==
    /\ pc = "exited" /\ failed = "" /\ status = 0 /\ input = 3
    /\ Len(bus) = 6 /\ bus[3].data = <<0, 128>> /\ bus[2].data = <<65, 133>>

====
